---- MODULE Spec2Model ----
(***************************************************************************)
(* Model of run_project.py: the one-file batch pipeline that loads four    *)
(* CSV datasets, cleans them, aggregates them to client-month level,       *)
(* builds the client-month fact table, derives the rollups and saves the   *)
(* outputs.  A DataFrame is a record [cols, rows]: the set of its column   *)
(* names and the sequence of its rows, each row a function from column     *)
(* name to cell.                                                           *)
(*                                                                         *)
(* Cells: a missing value (NaN / NaT / pd.NA) is the empty tuple, a parsed *)
(* integer or timestamp v is <<v>>, the result of a division is the        *)
(* reduced fraction <<n, d>>.  Unparsed text is a string, and a            *)
(* message_type is a sequence of characters.                               *)
(***************************************************************************)
EXTENDS Integers, Sequences, FiniteSets, TLC

\* ------------------------------------------------------------------ bounds
MaxRows == 3          \* rows over revenue.csv, sms.csv and appointment.csv together
MaxClientRows == 2    \* rows of clients.csv
MaxClient == 2        \* client ids are 1..MaxClient
MaxLen == 3           \* characters of a free message_type
MaxFaults == 2        \* missing files plus missing columns of one run

\* ------------------------------------------------------------------ cells
NaN == <<>>
Val(v) == <<v>>

RECURSIVE GCD(_, _)
GCD(a, b) == IF b = 0 THEN a ELSE GCD(b, a % b)

\* numer / denom as Python computes it for a non-zero denominator, kept exact
Frac(n, d) == LET g == GCD(n, d) IN <<n \div g, d \div g>>

\* a numeric cell as a fraction
AsFrac(c) == IF Len(c) = 1 THEN <<c[1], 1>> ELSE c

FracAdd(a, b) == Frac(a[1] * b[2] + b[1] * a[2], a[2] * b[2])

\* ------------------------------------------------------------------ config
Datasets == {"clients", "revenue", "appointment", "sms"}
Transactional == {"revenue", "appointment", "sms"}
AddCols == {"churned_flag", "region", "billing_currency", "golive_date"}
FillCols == {"sms_revenue", "sms_sent", "total_active_appointments", "avg_staff_count"}
CsvNames == {"client_month_fact.csv", "monthly_kpis.csv", "message_type_mix.csv",
             "churn_comparison.csv"}
ChartNames == {"monthly_sms_sent.png", "monthly_sms_revenue.png",
               "monthly_revenue_per_sms.png", "top_message_types.png"}

\* ------------------------------------------------------------------ sequences
RECURSIVE SumSeq(_)
SumSeq(s) == IF s = <<>> THEN 0 ELSE Head(s) + SumSeq(Tail(s))

RECURSIVE FracSum(_)
FracSum(s) == IF s = <<>> THEN <<0, 1>> ELSE FracAdd(AsFrac(Head(s)), FracSum(Tail(s)))

RECURSIVE Concat(_)
Concat(ss) == IF ss = <<>> THEN <<>> ELSE Head(ss) \o Concat(Tail(ss))

Range(s) == {s[i] : i \in 1..Len(s)}

Restrict(r, cols) == [c \in cols |-> r[c]]

\* lexicographic order of two sequences of integers, a proper prefix first
RECURSIVE LexLt(_, _)
LexLt(a, b) ==
    IF b = <<>> THEN FALSE
    ELSE IF a = <<>> THEN TRUE
    ELSE IF Head(a) # Head(b) THEN Head(a) < Head(b)
    ELSE LexLt(Tail(a), Tail(b))

\* stable sort of a sequence s by the integer-sequence keys key[i] of its elements
SortBy(s, key) ==
    LET n == Len(s)
        rank(i) == 1 + Cardinality({j \in 1..n :
                        \/ LexLt(key[j], key[i])
                        \/ key[j] = key[i] /\ j < i})
    IN [p \in 1..n |-> s[CHOOSE i \in 1..n : rank(i) = p]]

\* the elements of a set as a sequence, ascending by their (distinct) keys key[x]
SortSetBy(S, key) ==
    LET rank(k) == 1 + Cardinality({j \in S : LexLt(key[j], key[k])})
    IN [p \in 1..Cardinality(S) |-> CHOOSE k \in S : rank(k) = p]

\* the elements of a set of integer sequences, ascending
SortSet(S) == SortSetBy(S, [k \in S |-> k])

\* ------------------------------------------------------------------ parsing
\* pd.to_datetime(errors="coerce") of one cell: a timestamp as yyyymmdd, or NaT
ParseDate(s) ==
    CASE s = "2024-01" -> Val(20240101)
      [] s = "2024-01-01" -> Val(20240101)
      [] s = "2024-02" -> Val(20240201)
      [] s = "2024-02-01" -> Val(20240201)
      [] OTHER -> NaN

\* pd.to_numeric(errors="coerce") of one cell
ParseNumber(s) ==
    CASE s = "0" -> Val(0)
      [] s = "1" -> Val(1)
      [] s = "2" -> Val(2)
      [] s = "4" -> Val(4)
      [] s = "6" -> Val(6)
      [] s = "100" -> Val(100)
      [] OTHER -> NaN

\* ------------------------------------------------------------------ message_type
NaCell == <<"<NaN>">>       \* a message_type cell that read_csv left missing
Whitespace == {" ", "\t"}

AsStr(s) == IF s = NaCell THEN <<"n", "a", "n">> ELSE s

RECURSIVE LStrip(_)
LStrip(s) == IF s # <<>> /\ Head(s) \in Whitespace THEN LStrip(Tail(s)) ELSE s

RECURSIVE RStrip(_)
RStrip(s) ==
    IF s # <<>> /\ s[Len(s)] \in Whitespace THEN RStrip(SubSeq(s, 1, Len(s) - 1)) ELSE s

Strip(s) == RStrip(LStrip(s))

UpperChar(c) ==
    CASE c = "a" -> "A"
      [] c = "l" -> "L"
      [] c = "e" -> "E"
      [] c = "r" -> "R"
      [] c = "t" -> "T"
      [] c = "m" -> "M"
      [] c = "n" -> "N"
      [] c = "s" -> "S"
      [] OTHER -> c

Upper(s) == [i \in 1..Len(s) |-> UpperChar(s[i])]

ReplaceSpaces(s) == [i \in 1..Len(s) |-> IF s[i] = " " THEN "_" ELSE s[i]]

\* a plausible slip: swapcase in place of upper
StandardiseSwapcase(s) ==
    LET Swap(c) == IF UpperChar(c) # c THEN UpperChar(c)
                   ELSE CASE c = "A" -> "a" [] c = "N" -> "n" [] c = "S" -> "s" [] OTHER -> c
        t == Strip(AsStr(s))
    IN ReplaceSpaces([i \in 1..Len(t) |-> Swap(t[i])])

standardise_message_type(s) == ReplaceSpaces(Upper(Strip(AsStr(s))))

\* the code points that order message_type values
CharCode(c) ==
    CASE c = "\t" -> 9
      [] c = " " -> 32
      [] c = "A" -> 65
      [] c = "E" -> 69
      [] c = "L" -> 76
      [] c = "M" -> 77
      [] c = "N" -> 78
      [] c = "R" -> 82
      [] c = "S" -> 83
      [] c = "T" -> 84
      [] c = "_" -> 95
      [] c = "a" -> 97
      [] c = "e" -> 101
      [] c = "l" -> 108
      [] c = "m" -> 109
      [] c = "n" -> 110
      [] c = "r" -> 114
      [] c = "s" -> 115
      [] c = "t" -> 116
      [] OTHER -> 0

Codes(s) == [i \in 1..Len(s) |-> CharCode(s[i])]

\* ------------------------------------------------------------------ cleaning
\* df[df["client_id"].notna()]
DropNullIds(df) == [df EXCEPT !.rows = SelectSeq(df.rows, LAMBDA r : r["client_id"] # NaN)]

Coerced(df, col) ==
    [i \in 1..Len(df.rows) |-> [df.rows[i] EXCEPT ![col] = ParseDate(df.rows[i][col])]]

\* bad = df[col].isna().sum() after the coercion
BadDates(df, col) == Len(SelectSeq(Coerced(df, col), LAMBDA r : r[col] = NaN))

\* a plausible slip: the rows are coerced but the invalid ones are never dropped
ToDatetimeKeepBad(df, col) == [df EXCEPT !.rows = Coerced(df, col)]

to_datetime_month(df, col) ==
    IF BadDates(df, col) > 0
    THEN [df EXCEPT !.rows = SelectSeq(Coerced(df, col), LAMBDA r : r[col] # NaN)]
    ELSE [df EXCEPT !.rows = Coerced(df, col)]

to_numeric(df, col) ==
    [df EXCEPT !.rows =
        [i \in 1..Len(df.rows) |-> [df.rows[i] EXCEPT ![col] = ParseNumber(df.rows[i][col])]]]

StandardiseColumn(df) ==
    [df EXCEPT !.rows =
        [i \in 1..Len(df.rows) |->
            [df.rows[i] EXCEPT !["message_type"] =
                standardise_message_type(df.rows[i]["message_type"])]]]

\* ------------------------------------------------------------------ aggregation
KeyOf(r) == <<r["client_id"][1], r["year_month"][1]>>
KeyRec(k) == [client_id |-> Val(k[1]), year_month |-> Val(k[2])]
Keys(rows) == {KeyOf(r) : r \in Range(rows)}
Group(rows, k) == SelectSeq(rows, LAMBDA r : KeyOf(r) = k)

\* the non-null cells of a column
NonNull(rows, col) ==
    LET f == SelectSeq(rows, LAMBDA r : r[col] # NaN)
    IN [i \in 1..Len(f) |-> f[i][col]]

\* "sum": nulls are skipped, an all-null group sums to 0
ColSum(rows, col) ==
    LET v == NonNull(rows, col) IN Val(SumSeq([i \in 1..Len(v) |-> v[i][1]]))

\* a plausible slip: the mean divides by the number of rows, nulls included
ColMeanAllRows(rows, col) ==
    LET v == NonNull(rows, col)
        t == FracSum(v)
    IN IF Len(v) = 0 THEN NaN ELSE Frac(t[1], t[2] * Len(rows))

\* "mean": nulls are skipped, an all-null group has no mean
ColMean(rows, col) ==
    LET v == NonNull(rows, col)
        t == FracSum(v)
    IN IF Len(v) = 0 THEN NaN ELSE Frac(t[1], t[2] * Len(v))

\* groupby(["client_id", "year_month"], as_index=False).agg(...): one row per
\* key, the keys ascending
RevenueCm(df) ==
    LET ks == SortSet(Keys(df.rows))
    IN [i \in 1..Len(ks) |->
          KeyRec(ks[i]) @@ [sms_revenue |-> ColSum(Group(df.rows, ks[i]), "sms_revenue_loc")]]

SmsCm(df) ==
    LET ks == SortSet(Keys(df.rows))
    IN [i \in 1..Len(ks) |->
          KeyRec(ks[i]) @@ [sms_sent |-> ColSum(Group(df.rows, ks[i]), "sms_count")]]

ApptCm(df) ==
    LET ks == SortSet(Keys(df.rows))
    IN [i \in 1..Len(ks) |->
          KeyRec(ks[i]) @@
          [total_active_appointments |->
               ColSum(Group(df.rows, ks[i]), "total_active_appointment_count"),
           avg_staff_count |-> ColMean(Group(df.rows, ks[i]), "staff_count")]]

\* ------------------------------------------------------------------ fact table
\* pd.merge(L, R, on=["client_id", "year_month"], how="outer"): the keys of
\* either side ascending, each key's left rows crossed with its right rows
OuterMerge(L, R, lcols, rcols) ==
    LET ks == SortSet(Keys(L) \cup Keys(R))
        RowsFor(k) ==
            LET lm == Group(L, k)
                rm == Group(R, k)
            IN IF lm = <<>>
               THEN [j \in 1..Len(rm) |->
                        KeyRec(k) @@ [c \in lcols |-> NaN] @@ Restrict(rm[j], rcols)]
               ELSE IF rm = <<>>
               THEN [i \in 1..Len(lm) |-> lm[i] @@ [c \in rcols |-> NaN]]
               ELSE Concat([i \in 1..Len(lm) |->
                        [j \in 1..Len(rm) |-> lm[i] @@ Restrict(rm[j], rcols)]])
    IN Concat([i \in 1..Len(ks) |-> RowsFor(ks[i])])

Zero(col) == IF col = "avg_staff_count" THEN <<0, 1>> ELSE Val(0)

\* fact[col] = fact[col].fillna(0) for the four numeric columns
FillNa(rows) ==
    [i \in 1..Len(rows) |->
        [c \in DOMAIN rows[i] |->
            IF c \in FillCols /\ rows[i][c] = NaN THEN Zero(c) ELSE rows[i][c]]]

\* a plausible slip: a zero denominator yields 0 instead of the missing value
SafeDivideZero(numer, denom) ==
    IF numer = NaN \/ denom = NaN THEN NaN
    ELSE IF AsFrac(denom)[1] = 0 THEN <<0, 1>>
    ELSE Frac(AsFrac(numer)[1] * AsFrac(denom)[2], AsFrac(numer)[2] * AsFrac(denom)[1])

\* denom.replace(0, pd.NA), then numer / denom: missing when either is missing
safe_divide(numer, denom) ==
    LET d == IF denom # NaN /\ AsFrac(denom)[1] = 0 THEN NaN ELSE denom
    IN IF numer = NaN \/ d = NaN THEN NaN
       ELSE Frac(AsFrac(numer)[1] * AsFrac(d)[2], AsFrac(numer)[2] * AsFrac(d)[1])

AddRatio(rows) ==
    [i \in 1..Len(rows) |->
        rows[i] @@ [revenue_per_sms |-> safe_divide(rows[i]["sms_revenue"], rows[i]["sms_sent"])]]

\* fact.merge(clients_small, on="client_id", how="left"): the left order is
\* kept, a row is repeated once per matching client row
AddClientAttrs(rows, cl) ==
    LET add_cols == AddCols \cap cl.cols
        Expand(r) ==
            LET m == SelectSeq(cl.rows, LAMBDA c : c["client_id"] = r["client_id"])
            IN IF m = <<>> THEN <<r @@ [c \in add_cols |-> NaN]>>
               ELSE [j \in 1..Len(m) |-> r @@ Restrict(m[j], add_cols)]
    IN IF add_cols = {} THEN rows
       ELSE Concat([i \in 1..Len(rows) |-> Expand(rows[i])])

\* a plausible slip: the sort is left out
SortValuesOmitted(rows) == rows

\* fact.sort_values(["year_month", "client_id"]).reset_index(drop=True)
SortValues(rows) ==
    SortBy(rows, [i \in 1..Len(rows) |-> <<rows[i]["year_month"][1], rows[i]["client_id"][1]>>])

BuildFact(rcm, scm, acm, cl) ==
    LET m1 == OuterMerge(rcm, scm, {"sms_revenue"}, {"sms_sent"})
        m2 == OuterMerge(m1, acm, {"sms_revenue", "sms_sent"},
                         {"total_active_appointments", "avg_staff_count"})
    IN SortValues(AddClientAttrs(AddRatio(FillNa(m2)), cl))


\* ------------------------------------------------------------------ rollups
MonthRows(rows, m) == SelectSeq(rows, LAMBDA r : r["year_month"] = m)

\* a plausible slip: the monthly ratio is the mean of the rows' ratios
MonthlyKpisMeanOfRatios(rows) ==
    LET ms == SortSet({r["year_month"] : r \in Range(rows)})
    IN [i \in 1..Len(ms) |->
          LET g == MonthRows(rows, ms[i])
          IN [year_month |-> ms[i],
              active_clients |-> Val(Cardinality({r["client_id"] : r \in Range(g)})),
              sms_sent |-> ColSum(g, "sms_sent"),
              sms_revenue |-> ColSum(g, "sms_revenue"),
              total_active_appointments |-> ColSum(g, "total_active_appointments"),
              revenue_per_sms |-> ColMean(g, "revenue_per_sms")]]

\* fact.groupby("year_month").agg(...), then safe_divide on the monthly totals
MonthlyKpis(rows) ==
    LET ms == SortSet({r["year_month"] : r \in Range(rows)})
    IN [i \in 1..Len(ms) |->
          LET g == MonthRows(rows, ms[i])
          IN [year_month |-> ms[i],
              active_clients |-> Val(Cardinality({r["client_id"] : r \in Range(g)})),
              sms_sent |-> ColSum(g, "sms_sent"),
              sms_revenue |-> ColSum(g, "sms_revenue"),
              total_active_appointments |-> ColSum(g, "total_active_appointments"),
              revenue_per_sms |-> safe_divide(ColSum(g, "sms_revenue"), ColSum(g, "sms_sent"))]]

\* sms.groupby(["year_month", "message_type"]).agg(sms_sent=("sms_count", "sum")),
\* sorted by the two keys
MessageTypeMix(df) ==
    LET pairs == {<<r["year_month"], r["message_type"]>> : r \in Range(df.rows)}
        ks == SortSetBy(pairs, [k \in pairs |-> k[1] \o Codes(k[2])])
    IN [i \in 1..Len(ks) |->
          [year_month |-> ks[i][1],
           message_type |-> ks[i][2],
           sms_sent |-> ColSum(SelectSeq(df.rows,
                            LAMBDA r : <<r["year_month"], r["message_type"]>> = ks[i]),
                            "sms_count")]]

\* fact.groupby("client_id").agg(...) with the per-client ratio
ClientTotals(rows) ==
    LET cs == SortSet({r["client_id"] : r \in Range(rows)})
    IN [i \in 1..Len(cs) |->
          LET g == SelectSeq(rows, LAMBDA r : r["client_id"] = cs[i])
          IN [client_id |-> cs[i],
              sms_sent_total |-> ColSum(g, "sms_sent"),
              sms_revenue_total |-> ColSum(g, "sms_revenue"),
              revenue_per_sms_total |->
                  safe_divide(ColSum(g, "sms_revenue"), ColSum(g, "sms_sent"))]]

\* a plausible slip: the merge starts from the clients table, so clients
\* without any fact row are compared too
ChurnComparisonFromClients(totals, cl) ==
    LET Expand(c) ==
            LET m == SelectSeq(totals, LAMBDA r : r["client_id"] = c["client_id"])
            IN IF m = <<>>
               THEN <<[client_id |-> c["client_id"], sms_sent_total |-> NaN,
                       sms_revenue_total |-> NaN, revenue_per_sms_total |-> NaN,
                       churned_flag |-> c["churned_flag"]]>>
               ELSE [j \in 1..Len(m) |-> m[j] @@ [churned_flag |-> c["churned_flag"]]]
        merged == Concat([i \in 1..Len(cl.rows) |-> Expand(cl.rows[i])])
        fs == SortSet({r["churned_flag"] : r \in Range(merged)} \ {NaN})
    IN [i \in 1..Len(fs) |->
          LET g == SelectSeq(merged, LAMBDA r : r["churned_flag"] = fs[i])
          IN [churned_flag |-> fs[i],
              clients |-> Val(Cardinality({r["client_id"] : r \in Range(g)})),
              avg_sms_sent_total |-> ColMean(g, "sms_sent_total"),
              avg_sms_revenue_total |-> ColMean(g, "sms_revenue_total"),
              avg_revenue_per_sms_total |-> ColMean(g, "revenue_per_sms_total")]]

\* client_totals.merge(clients[["client_id", "churned_flag"]], how="left"),
\* grouped by churned_flag (null flags are left out), sorted by churned_flag
ChurnComparison(totals, cl) ==
    LET Expand(r) ==
            LET m == SelectSeq(cl.rows, LAMBDA c : c["client_id"] = r["client_id"])
            IN IF m = <<>> THEN <<r @@ [churned_flag |-> NaN]>>
               ELSE [j \in 1..Len(m) |-> r @@ [churned_flag |-> m[j]["churned_flag"]]]
        merged == Concat([i \in 1..Len(totals) |-> Expand(totals[i])])
        fs == SortSet({r["churned_flag"] : r \in Range(merged)} \ {NaN})
    IN [i \in 1..Len(fs) |->
          LET g == SelectSeq(merged, LAMBDA r : r["churned_flag"] = fs[i])
          IN [churned_flag |-> fs[i],
              clients |-> Val(Cardinality({r["client_id"] : r \in Range(g)})),
              avg_sms_sent_total |-> ColMean(g, "sms_sent_total"),
              avg_sms_revenue_total |-> ColMean(g, "sms_revenue_total"),
              avg_revenue_per_sms_total |-> ColMean(g, "revenue_per_sms_total")]]

\* ------------------------------------------------------------------ state
VARIABLES
    files,              \* ./data: per dataset, whether the CSV exists and its content
    pc,                 \* the step main() is at
    exit_status,        \* the process's exit status once it has ended
    dirs,               \* whether ensure_dirs has created outputs/ and outputs/charts
    clients, revenue, appointment, sms,     \* the four DataFrames
    report,             \* per dataset, the dropped-row count that was printed (0: none)
    log,                \* the ERROR and WARNING lines printed
    revenue_cm, sms_cm, appt_cm,            \* the client-month aggregates
    fact, monthly_kpis, message_type_mix, client_totals, churn_comparison,
    saved,              \* outputs/: file name -> the table written by this run
    charts,             \* outputs/charts: the images written by this run
    prev                \* the tables of the previous run of the program, if any

vars == <<files, pc, exit_status, dirs, clients, revenue, appointment, sms, report, log,
          revenue_cm, sms_cm, appt_cm, fact, monthly_kpis, message_type_mix,
          client_totals, churn_comparison, saved, charts, prev>>

frames == <<clients, revenue, appointment, sms>>
aggregates == <<revenue_cm, sms_cm, appt_cm>>
rollups == <<monthly_kpis, message_type_mix, client_totals, churn_comparison>>
outputs == <<saved, charts>>

NoFrame == [cols |-> {}, rows |-> <<>>]
NoFile == [exists |-> FALSE, cols |-> {}, rows |-> <<>>]
File(cols, rows) == [exists |-> TRUE, cols |-> cols, rows |-> rows]
NoRun == [ran |-> FALSE, fact |-> <<>>, monthly_kpis |-> <<>>, message_type_mix |-> <<>>,
          churn_comparison |-> <<>>]

\* a fresh process: nothing loaded, nothing written
Fresh ==
    /\ pc = "start"
    /\ exit_status = -1
    /\ dirs = FALSE
    /\ clients = NoFrame /\ revenue = NoFrame /\ appointment = NoFrame /\ sms = NoFrame
    /\ report = [d \in Datasets |-> 0]
    /\ log = {}
    /\ revenue_cm = <<>> /\ sms_cm = <<>> /\ appt_cm = <<>>
    /\ fact = <<>> /\ monthly_kpis = <<>> /\ message_type_mix = <<>>
    /\ client_totals = <<>> /\ churn_comparison = <<>>
    /\ saved = [n \in {} |-> <<>>]
    /\ charts = {}

\* sys.exit(1) after an ERROR line
Exit(msg) ==
    /\ pc' = "exited"
    /\ exit_status' = 1
    /\ log' = log \cup {msg}

\* ------------------------------------------------------------------ main()
\* ensure_dirs(); assert_files_exist()
AssertFilesExist ==
    /\ pc = "start"
    /\ dirs' = TRUE
    /\ IF \E d \in Datasets : ~files[d].exists
       THEN Exit("ERROR: Missing required data files")
       ELSE pc' = "load" /\ UNCHANGED <<exit_status, log>>
    /\ UNCHANGED <<files, frames, report, aggregates, fact, rollups, outputs, prev>>

\* 1) Load
Load ==
    /\ pc = "load"
    /\ clients' = [cols |-> files["clients"].cols, rows |-> files["clients"].rows]
    /\ revenue' = [cols |-> files["revenue"].cols, rows |-> files["revenue"].rows]
    /\ appointment' = [cols |-> files["appointment"].cols, rows |-> files["appointment"].rows]
    /\ sms' = [cols |-> files["sms"].cols, rows |-> files["sms"].rows]
    /\ pc' = "ids"
    /\ UNCHANGED <<files, exit_status, dirs, report, log, aggregates, fact, rollups,
                   outputs, prev>>

\* 2) Drop null client_id rows
DropNullClientIds ==
    /\ pc = "ids"
    /\ IF \E df \in {clients, revenue, appointment, sms} : "client_id" \notin df.cols
       THEN /\ Exit("ERROR: missing 'client_id' column")
            /\ UNCHANGED <<frames, report>>
       ELSE /\ clients' = DropNullIds(clients)
            /\ revenue' = DropNullIds(revenue)
            /\ appointment' = DropNullIds(appointment)
            /\ sms' = DropNullIds(sms)
            /\ report' = [report EXCEPT
                   !["clients"] = Len(clients.rows) - Len(DropNullIds(clients).rows)]
            /\ pc' = "dates"
            /\ UNCHANGED <<exit_status, log>>
    /\ UNCHANGED <<files, dirs, aggregates, fact, rollups, outputs, prev>>

\* 3) Dates: the year_month check, then to_datetime_month on each dataset
ValidateDates ==
    /\ pc = "dates"
    /\ IF \E df \in {revenue, appointment, sms} : "year_month" \notin df.cols
       THEN /\ Exit("ERROR: missing 'year_month' column")
            /\ UNCHANGED <<frames, report>>
       ELSE /\ revenue' = to_datetime_month(revenue, "year_month")
            /\ appointment' = to_datetime_month(appointment, "year_month")
            /\ sms' = to_datetime_month(sms, "year_month")
            /\ report' = [report EXCEPT
                   !["revenue"] = BadDates(revenue, "year_month"),
                   !["appointment"] = BadDates(appointment, "year_month"),
                   !["sms"] = BadDates(sms, "year_month")]
            /\ log' = log
                   \cup (IF BadDates(revenue, "year_month") > 0
                         THEN {"WARNING: revenue has rows with invalid year_month"} ELSE {})
                   \cup (IF BadDates(appointment, "year_month") > 0
                         THEN {"WARNING: appointment has rows with invalid year_month"}
                         ELSE {})
                   \cup (IF BadDates(sms, "year_month") > 0
                         THEN {"WARNING: sms has rows with invalid year_month"} ELSE {})
            /\ pc' = "numerics"
            /\ UNCHANGED <<clients, exit_status>>
    /\ UNCHANGED <<files, dirs, aggregates, fact, rollups, outputs, prev>>

\* 3) Numerics: to_numeric on the four required columns in turn, then the
\* optional sms_cost
ValidateNumerics ==
    /\ pc = "numerics"
    /\ IF \/ "sms_revenue_loc" \notin revenue.cols
          \/ "sms_count" \notin sms.cols
          \/ "total_active_appointment_count" \notin appointment.cols
          \/ "staff_count" \notin appointment.cols
       THEN /\ Exit("ERROR: missing required column")
            \* the columns coerced before the missing one is met
            /\ revenue' = IF "sms_revenue_loc" \in revenue.cols
                          THEN to_numeric(revenue, "sms_revenue_loc") ELSE revenue
            /\ sms' = IF "sms_revenue_loc" \in revenue.cols /\ "sms_count" \in sms.cols
                      THEN to_numeric(sms, "sms_count") ELSE sms
            /\ appointment' =
                   IF /\ "sms_revenue_loc" \in revenue.cols
                      /\ "sms_count" \in sms.cols
                      /\ "total_active_appointment_count" \in appointment.cols
                   THEN to_numeric(appointment, "total_active_appointment_count")
                   ELSE appointment
            /\ UNCHANGED clients
       ELSE /\ revenue' = to_numeric(revenue, "sms_revenue_loc")
            /\ sms' = to_numeric(sms, "sms_count")
            /\ appointment' = to_numeric(to_numeric(appointment,
                   "total_active_appointment_count"), "staff_count")
            /\ clients' = IF "sms_cost" \in clients.cols
                          THEN to_numeric(clients, "sms_cost") ELSE clients
            /\ pc' = "message_type"
            /\ UNCHANGED <<exit_status, log>>
    /\ UNCHANGED <<files, dirs, report, aggregates, fact, rollups, outputs, prev>>

\* a plausible slip: a missing message_type is only warned about
StandardiseMessageTypeOptional ==
    /\ pc = "message_type"
    /\ IF "message_type" \notin sms.cols
       THEN /\ log' = log \cup {"WARNING: sms.csv missing 'message_type' column"}
            /\ UNCHANGED <<sms, exit_status>>
       ELSE /\ sms' = StandardiseColumn(sms)
            /\ UNCHANGED <<exit_status, log>>
    /\ pc' = "aggregate"
    /\ UNCHANGED <<files, dirs, clients, revenue, appointment, report, aggregates, fact,
                   rollups, outputs, prev>>

\* 4) Standardise message_type
StandardiseMessageType ==
    /\ pc = "message_type"
    /\ IF "message_type" \notin sms.cols
       THEN /\ Exit("ERROR: sms.csv missing 'message_type' column")
            /\ UNCHANGED sms
       ELSE /\ sms' = StandardiseColumn(sms)
            /\ pc' = "aggregate"
            /\ UNCHANGED <<exit_status, log>>
    /\ UNCHANGED <<files, dirs, clients, revenue, appointment, report, aggregates, fact,
                   rollups, outputs, prev>>

\* 6) Aggregate to client-month level
Aggregate ==
    /\ pc = "aggregate"
    /\ revenue_cm' = RevenueCm(revenue)
    /\ sms_cm' = SmsCm(sms)
    /\ appt_cm' = ApptCm(appointment)
    /\ pc' = "fact"
    /\ UNCHANGED <<files, exit_status, dirs, frames, report, log, fact, rollups, outputs,
                   prev>>

\* 7) Build client-month fact table
BuildFactTable ==
    /\ pc = "fact"
    /\ fact' = BuildFact(revenue_cm, sms_cm, appt_cm, clients)
    /\ pc' = "kpis"
    /\ UNCHANGED <<files, exit_status, dirs, frames, report, log, aggregates, rollups,
                   outputs, prev>>

\* 8) Monthly KPIs
BuildMonthlyKpis ==
    /\ pc = "kpis"
    /\ monthly_kpis' = MonthlyKpis(fact)
    /\ pc' = "mix"
    /\ UNCHANGED <<files, exit_status, dirs, frames, report, log, aggregates, fact,
                   message_type_mix, client_totals, churn_comparison, outputs, prev>>

\* 9) Message type mix
BuildMessageTypeMix ==
    /\ pc = "mix"
    /\ message_type_mix' = MessageTypeMix(sms)
    /\ pc' = "churn"
    /\ UNCHANGED <<files, exit_status, dirs, frames, report, log, aggregates, fact,
                   monthly_kpis, client_totals, churn_comparison, outputs, prev>>

\* 10) Churn comparison
BuildChurnComparison ==
    /\ pc = "churn"
    /\ IF "churned_flag" \in clients.cols
       THEN /\ client_totals' = ClientTotals(fact)
            /\ churn_comparison' = ChurnComparison(ClientTotals(fact), clients)
            /\ UNCHANGED log
       ELSE /\ log' = log \cup {"WARNING: clients.csv missing churned_flag"}
            /\ UNCHANGED <<client_totals, churn_comparison>>
    /\ pc' = "save"
    /\ UNCHANGED <<files, exit_status, dirs, frames, report, aggregates, fact,
                   monthly_kpis, message_type_mix, outputs, prev>>

\* 11) Save outputs: three save_csv calls, and a fourth when the churn
\* comparison is not empty
SaveOutputs ==
    /\ pc = "save"
    /\ saved' = [n \in {"client_month_fact.csv", "monthly_kpis.csv", "message_type_mix.csv"}
                      \cup (IF churn_comparison # <<>> THEN {"churn_comparison.csv"} ELSE {})
                 |-> CASE n = "client_month_fact.csv" -> fact
                       [] n = "monthly_kpis.csv" -> monthly_kpis
                       [] n = "message_type_mix.csv" -> message_type_mix
                       [] OTHER -> churn_comparison]
    /\ pc' = "charts"
    /\ UNCHANGED <<files, exit_status, dirs, frames, report, log, aggregates, fact,
                   rollups, charts, prev>>

\* 12) Save charts
SaveCharts ==
    /\ pc = "charts"
    /\ charts' = ChartNames
    /\ pc' = "summary"
    /\ UNCHANGED <<files, exit_status, dirs, frames, report, log, aggregates, fact,
                   rollups, saved, prev>>

\* 13) Print quick summary; main() returns and the process ends with status 0
PrintSummary ==
    /\ pc = "summary"
    /\ pc' = "done"
    /\ exit_status' = 0
    /\ UNCHANGED <<files, dirs, frames, report, log, aggregates, fact, rollups, outputs,
                   prev>>

Next ==
    \/ AssertFilesExist
    \/ Load
    \/ DropNullClientIds
    \/ ValidateDates
    \/ ValidateNumerics
    \/ StandardiseMessageType
    \/ Aggregate
    \/ BuildFactTable
    \/ BuildMonthlyKpis
    \/ BuildMessageTypeMix
    \/ BuildChurnComparison
    \/ SaveOutputs
    \/ SaveCharts
    \/ PrintSummary


\* the program is started again on new input files; the finished run's tables
\* are remembered for comparison
Rerun(bundles) ==
    /\ pc \in {"done", "exited"}
    /\ \E b \in bundles : files' = b
    /\ prev' = [ran |-> pc = "done", fact |-> fact, monthly_kpis |-> monthly_kpis,
                message_type_mix |-> message_type_mix,
                churn_comparison |-> churn_comparison]
    /\ pc' = "start"
    /\ exit_status' = -1
    /\ dirs' = TRUE
    /\ clients' = NoFrame /\ revenue' = NoFrame /\ appointment' = NoFrame /\ sms' = NoFrame
    /\ report' = [d \in Datasets |-> 0]
    /\ log' = {}
    /\ revenue_cm' = <<>> /\ sms_cm' = <<>> /\ appt_cm' = <<>>
    /\ fact' = <<>> /\ monthly_kpis' = <<>> /\ message_type_mix' = <<>>
    /\ client_totals' = <<>> /\ churn_comparison' = <<>>
    /\ saved' = [n \in {} |-> <<>>]
    /\ charts' = {}

\* ------------------------------------------------------------------ input files
ClientIds == {Val(c) : c \in 1..MaxClient}
Alert == <<"a", "l", "e", "r", "t">>
SmsAlertRaw == <<" ", "s", "m", "s", " ", "a", "l", "e", "r", "t", " ">>
SmsAlertCanon == <<"S", "M", "S", "_", "A", "L", "E", "R", "T">>

RevCols == {"client_id", "year_month", "sms_revenue_loc"}
SmsCols == {"client_id", "year_month", "sms_count", "message_type"}
ApptCols == {"client_id", "year_month", "total_active_appointment_count", "staff_count"}

RevRows(C, M, V) ==
    {[client_id |-> c, year_month |-> m, sms_revenue_loc |-> v] : c \in C, m \in M, v \in V}
SmsRows(C, M, V, T) ==
    {[client_id |-> c, year_month |-> m, sms_count |-> v, message_type |-> t] :
        c \in C, m \in M, v \in V, t \in T}
ApptRows(C, M, V, S) ==
    {[client_id |-> c, year_month |-> m, total_active_appointment_count |-> v,
      staff_count |-> st] : c \in C, m \in M, v \in V, st \in S}

\* a clients.csv row over the given columns
ClientRow(cols, c, flag) ==
    [col \in cols |->
        CASE col = "client_id" -> c
          [] col = "churned_flag" -> flag
          [] col = "sms_cost" -> "1"
          [] OTHER -> Val("x")]

SeqsUpTo(S, n) == UNION {[1..k -> S] : k \in 0..n}

ClientFiles(cols, C, F) ==
    {File(cols, rows) : rows \in SeqsUpTo({ClientRow(cols, c, f) : c \in C, f \in F},
                                          MaxClientRows)}

Bundle(cl, rv, ap, sm) ==
    [clients |-> cl, revenue |-> File(RevCols, rv), appointment |-> File(ApptCols, ap),
     sms |-> File(SmsCols, sm)]

\* a first run on files whose transactional rows, at most MaxRows together, are
\* drawn from R, S and A and whose clients.csv is one of C
Start(R, S, A, C) ==
    /\ \E a \in 0..MaxRows : \E b \in 0..(MaxRows - a) : \E c \in 0..(MaxRows - a - b) :
         \E rv \in [1..a -> R], sm \in [1..b -> S], ap \in [1..c -> A], cl \in C :
            files = Bundle(cl, rv, ap, sm)
    /\ Fresh
    /\ prev = NoRun

\* keys vary: every client, two months of revenue and SMS; clients.csv without
\* an attribute column, with one, and with one and a repeated id
InitKeys ==
    Start(RevRows(ClientIds, {"2024-01", "2024-02"}, {"100"}),
          SmsRows(ClientIds, {"2024-01", "2024-02"}, {"2"}, {Alert}),
          ApptRows(ClientIds, {"2024-01"}, {"1"}, {"4"}),
          {File({"client_id"}, <<>>),
           File({"client_id", "region"}, <<ClientRow({"client_id", "region"}, Val(1), NaN)>>),
           File({"client_id", "region"},
                [i \in 1..MaxClientRows |-> ClientRow({"client_id", "region"}, Val(1), NaN)])})

SpecKeys == InitKeys /\ [][Next]_vars


\* values vary: revenue and SMS amounts, zero included, for the first and the
\* last client
InitValues ==
    Start(RevRows({Val(1), Val(MaxClient)}, {"2024-01", "2024-02"}, {"0", "100"}),
          SmsRows({Val(1), Val(MaxClient)}, {"2024-01", "2024-02"}, {"0", "1", "2"}, {Alert}),
          {},
          {File({"client_id", "churned_flag"},
                <<ClientRow({"client_id", "churned_flag"}, Val(1), Val(0))>>)})

SpecValues == InitValues /\ [][Next]_vars

\* unparseable numbers in every numeric column
InitNulls ==
    Start(RevRows({Val(1)}, {"2024-01"}, {"100", "abc"}),
          SmsRows({Val(1)}, {"2024-01"}, {"2", "abc"}, {Alert}),
          ApptRows({Val(1)}, {"2024-01", "2024-02"}, {"2", "abc"}, {"4", "6", "abc"}),
          {File({"client_id"}, <<>>)})

SpecNulls == InitNulls /\ [][Next]_vars

\* unparseable and missing dates, missing client ids
RawDates == {"2024-01", "2024-01-01", "2024-02", "not-a-date", ""}
InitDirty ==
    Start(RevRows({NaN, Val(1)}, RawDates, {"100"}),
          SmsRows({NaN, Val(1)}, RawDates, {"2"}, {Alert}),
          ApptRows({Val(1)}, RawDates, {"1"}, {"4"}),
          {File({"client_id"}, <<>>)})

SpecDirty == InitDirty /\ [][Next]_vars

\* the required columns, per dataset
RequiredCols ==
    {<<d, "client_id">> : d \in Datasets}
    \cup {<<d, "year_month">> : d \in Transactional}
    \cup {<<"revenue", "sms_revenue_loc">>, <<"sms", "sms_count">>,
          <<"appointment", "total_active_appointment_count">>,
          <<"appointment", "staff_count">>, <<"sms", "message_type">>}

DropCols(f, cs) ==
    File(f.cols \ cs, [i \in 1..Len(f.rows) |-> Restrict(f.rows[i], f.cols \ cs)])

SchemaBase ==
    Bundle(File({"client_id", "churned_flag", "sms_cost"},
                <<ClientRow({"client_id", "churned_flag", "sms_cost"}, Val(1), Val(0))>>),
           <<[client_id |-> Val(1), year_month |-> "2024-01", sms_revenue_loc |-> "100"]>>,
           <<[client_id |-> Val(1), year_month |-> "2024-01",
              total_active_appointment_count |-> "1", staff_count |-> "4"]>>,
           <<[client_id |-> Val(1), year_month |-> "2024-01", sms_count |-> "2",
              message_type |-> Alert]>>)

\* schema faults: up to MaxFaults missing files and missing required columns
InitSchema ==
    /\ \E M \in SUBSET Datasets : \E D \in SUBSET RequiredCols :
          /\ Cardinality(M) + Cardinality(D) <= MaxFaults
          /\ files = [d \in Datasets |->
                        IF d \in M THEN NoFile
                        ELSE DropCols(SchemaBase[d], {c[2] : c \in {x \in D : x[1] = d}})]
    /\ Fresh
    /\ prev = NoRun

SpecSchema == InitSchema /\ [][Next]_vars

\* clients.csv with and without churned_flag, flags present, missing and repeated
InitChurn ==
    Start(RevRows(ClientIds, {"2024-01"}, {"100"}),
          SmsRows({Val(1)}, {"2024-01"}, {"0", "2"}, {Alert}),
          {},
          ClientFiles({"client_id"}, ClientIds, {NaN})
              \cup ClientFiles({"client_id", "churned_flag"}, ClientIds, {NaN, Val(0), Val(1)}))

SpecChurn == InitChurn /\ [][Next]_vars

\* free message_type values over a small alphabet, and the two spellings of one label
Chars == {"a", "A", " ", "_", "\t"}
MessageTypes == SeqsUpTo(Chars, MaxLen) \cup {NaCell, SmsAlertRaw, SmsAlertCanon}

InitMessages ==
    /\ \E t \in MessageTypes : \E u \in {<<>>, <<SmsAlertRaw>>, <<SmsAlertCanon>>} :
          files = Bundle(File({"client_id"}, <<>>), <<>>, <<>>,
                         [i \in 1..(1 + Len(u)) |->
                             [client_id |-> Val(1), year_month |-> "2024-01",
                              sms_count |-> "2",
                              message_type |-> IF i = 1 THEN t ELSE u[1]]])
    /\ Fresh
    /\ prev = NoRun

SpecMessages == InitMessages /\ [][Next]_vars

\* two runs in a row: clients.csv lists any of the clients once, each churned
\* or not, or the first client twice
PairClients ==
    LET cols == {"client_id", "churned_flag"}
        Listed(S, f) ==
            LET ids == SortSet(S)
            IN [p \in 1..Len(ids) |-> ClientRow(cols, ids[p], f[ids[p]])]
    IN UNION {{File(cols, Listed(S, f)) : f \in [S -> {Val(0), Val(1)}]} :
                 S \in SUBSET ClientIds}
       \cup {File(cols, <<ClientRow(cols, Val(1), Val(0)), ClientRow(cols, Val(1), Val(1))>>)}

PairBundles ==
    {Bundle(cl, rv, <<>>, sm) :
        cl \in PairClients,
        rv \in SeqsUpTo(RevRows({Val(1)}, {"2024-01"}, {"100"}), 1),
        sm \in SeqsUpTo(SmsRows({Val(1)}, {"2024-01"}, {"0", "2"}, {Alert})
                        \cup SmsRows({Val(1)}, {"2024-01"}, {"2"}, {SmsAlertCanon}), 1)}

InitPair ==
    /\ files \in PairBundles
    /\ Fresh
    /\ prev = NoRun

NextPair == Next \/ Rerun(PairBundles)

SpecPair == InitPair /\ [][NextPair]_vars

Init ==
    \/ InitKeys
    \/ InitValues
    \/ InitNulls
    \/ InitDirty
    \/ InitSchema
    \/ InitChurn
    \/ InitMessages

Spec == Init /\ [][Next]_vars

\* ------------------------------------------------------------------ steps
StepOrder == <<"start", "load", "ids", "dates", "numerics", "message_type", "aggregate",
               "fact", "kpis", "mix", "churn", "save", "charts", "summary", "done">>

\* the steps that come after the named one has run
Past(step) ==
    {StepOrder[i] : i \in {j \in 1..Len(StepOrder) :
        \E k \in 1..Len(StepOrder) : StepOrder[k] = step /\ j > k}}


\* ------------------------------------------------------------------ claims
Ym(r) == r["year_month"][1]
Id(r) == r["client_id"][1]
Indices(rows) == 1..Len(rows)

\* the sum of f over a set of indices
RECURSIVE IdxSum(_, _)
IdxSum(I, f) ==
    IF I = {} THEN 0
    ELSE LET i == CHOOSE j \in I : TRUE IN f[i] + IdxSum(I \ {i}, f)

\* the non-null cells of a column, as numbers, null counted as 0
Num(rows, col) == [i \in Indices(rows) |-> IF rows[i][col] = NaN THEN 0 ELSE rows[i][col][1]]

SourceKeys == Keys(revenue_cm) \cup Keys(sms_cm) \cup Keys(appt_cm)

\* C1: once the fact table is built, every (client_id, year_month) key of the
\* revenue, SMS or appointment aggregate has exactly one fact row, and in it a
\* numeric field whose source has no row for the key is 0.
C1_OneFactRowPerKey ==
    pc \in Past("fact") =>
        \A k \in SourceKeys :
            /\ Cardinality({i \in Indices(fact) : KeyOf(fact[i]) = k}) = 1
            /\ \A i \in Indices(fact) : KeyOf(fact[i]) = k =>
                  /\ k \notin Keys(revenue_cm) => fact[i]["sms_revenue"] = Val(0)
                  /\ k \notin Keys(sms_cm) => fact[i]["sms_sent"] = Val(0)
                  /\ k \notin Keys(appt_cm) =>
                        /\ fact[i]["total_active_appointments"] = Val(0)
                        /\ fact[i]["avg_staff_count"] = <<0, 1>>

IsZero(c) == c = NaN \/ AsFrac(c)[1] = 0

\* C2: in the fact table, the monthly KPIs and the per-client totals, a row
\* whose denominator (SMS sent) is 0 or null has the missing value as its
\* ratio, never a number; and a run that met such a row has not been aborted.
C2_DivisionSafety ==
    /\ pc \in Past("fact") =>
          \A i \in Indices(fact) :
              IsZero(fact[i]["sms_sent"]) => fact[i]["revenue_per_sms"] = NaN
    /\ pc \in Past("kpis") =>
          \A i \in Indices(monthly_kpis) :
              IsZero(monthly_kpis[i]["sms_sent"]) => monthly_kpis[i]["revenue_per_sms"] = NaN
    /\ pc \in Past("churn") =>
          \A i \in Indices(client_totals) :
              IsZero(client_totals[i]["sms_sent_total"]) =>
                  client_totals[i]["revenue_per_sms_total"] = NaN
    /\ (\E i \in Indices(revenue_cm) : \A j \in Indices(sms_cm) :
            KeyOf(sms_cm[j]) = KeyOf(revenue_cm[i]) => sms_cm[j]["sms_sent"] = Val(0))
          => pc # "exited"

\* a finished run with revenue 100 over 0 SMS sent in a fact row, a month and a
\* client without SMS
C2_Witness ==
    /\ pc = "done"
    /\ \E i \in Indices(fact) :
          /\ fact[i]["sms_revenue"] = Val(100)
          /\ fact[i]["sms_sent"] = Val(0)
          /\ fact[i]["revenue_per_sms"] = NaN
    /\ \E i \in Indices(monthly_kpis) : monthly_kpis[i]["sms_sent"] = Val(0)
    /\ \E i \in Indices(client_totals) : client_totals[i]["sms_sent_total"] = Val(0)

\* the input has a fatal configuration error
FatalConfig ==
    \/ \E d \in Datasets : ~files[d].exists
    \/ \E c \in RequiredCols : c[2] \notin files[c[1]].cols

\* C3: a run on input with a fatal configuration error never gets past the
\* validation steps; a run that exits does so with status 1 and has written no
\* table and no chart; an ended run has written all its outputs or none.
C3_FatalBeforeOutput ==
    /\ FatalConfig =>
          /\ pc \in {"start", "load", "ids", "dates", "numerics", "message_type", "exited"}
          /\ DOMAIN saved = {}
          /\ charts = {}
    /\ pc = "exited" => exit_status = 1 /\ DOMAIN saved = {} /\ charts = {} /\ FatalConfig
    /\ pc = "done" =>
          /\ exit_status = 0
          /\ {"client_month_fact.csv", "monthly_kpis.csv", "message_type_mix.csv"}
                \subseteq DOMAIN saved
          /\ charts = ChartNames

\* a run that exits at the last check, the one for message_type
C3_Witness ==
    /\ pc = "exited"
    /\ exit_status = 1
    /\ "message_type" \notin files["sms"].cols
    /\ "ERROR: sms.csv missing 'message_type' column" \in log
    /\ dirs

\* the year_month spellings that denote a date, and the date each denotes
Parseable == {"2024-01", "2024-01-01", "2024-02", "2024-02-01"}
DateOf(t) == IF t \in {"2024-01", "2024-01-01"} THEN 20240101 ELSE 20240201
Frame(d) == CASE d = "revenue" -> revenue [] d = "appointment" -> appointment [] OTHER -> sms

\* the rows of d's file with a client id, and those of them with a valid date
WithId(d) == {i \in Indices(files[d].rows) : files[d].rows[i]["client_id"] # NaN}
WithDate(d) == {i \in WithId(d) : files[d].rows[i]["year_month"] \in Parseable}

\* C4: from the date step on (so before the grouping), each of revenue,
\* appointment and sms holds exactly its rows with a parseable year_month, in
\* their order and none with a missing date, the count printed for the dataset
\* is the number of rows removed, and the run has not been aborted.
C4_BadDatesDropped ==
    pc \in Past("dates") \cup {"exited"} =>
        /\ pc # "exited"
        /\ \A d \in Transactional :
              /\ Len(Frame(d).rows) = Cardinality(WithDate(d))
              /\ \A i \in Indices(Frame(d).rows) : Frame(d).rows[i]["year_month"] # NaN
              /\ \A i \in Indices(Frame(d).rows) :
                    \E j \in WithDate(d) :
                        /\ Cardinality({k \in WithDate(d) : k <= j}) = i
                        /\ Frame(d).rows[i]["year_month"]
                              = <<DateOf(files[d].rows[j]["year_month"])>>
              /\ report[d] = Cardinality(WithId(d) \ WithDate(d))

\* a finished run whose sms.csv had exactly one bad row, and good rows too
C4_Witness ==
    /\ pc = "done"
    /\ report["sms"] = 1
    /\ Len(sms.rows) = 2
    /\ "WARNING: sms has rows with invalid year_month" \in log
    /\ report["revenue"] = 0


\* the rows of a frame with the key of an aggregate row
InGroup(rows, g) == {i \in Indices(rows) : KeyOf(rows[i]) = KeyOf(g)}
Present(rows, I, col) == {i \in I : rows[i][col] # NaN}

\* C5: an unparseable number becomes null and its row stays; per client-month
\* group the three sums are the sums of the non-null values and avg_staff_count
\* is the sum of the non-null staff counts over their number (null when none).
C5_NullsInAggregates ==
    /\ pc \in Past("numerics") =>
          /\ Len(appointment.rows) = Len(files["appointment"].rows)
          /\ Len(revenue.rows) = Len(files["revenue"].rows)
          /\ Len(sms.rows) = Len(files["sms"].rows)
          /\ \A i \in Indices(appointment.rows) :
                /\ files["appointment"].rows[i]["staff_count"] = "abc"
                      <=> appointment.rows[i]["staff_count"] = NaN
                /\ files["appointment"].rows[i]["total_active_appointment_count"] = "abc"
                      <=> appointment.rows[i]["total_active_appointment_count"] = NaN
          /\ \A i \in Indices(revenue.rows) :
                files["revenue"].rows[i]["sms_revenue_loc"] = "abc"
                    <=> revenue.rows[i]["sms_revenue_loc"] = NaN
          /\ \A i \in Indices(sms.rows) :
                files["sms"].rows[i]["sms_count"] = "abc" <=> sms.rows[i]["sms_count"] = NaN
    /\ pc \in Past("aggregate") =>
          /\ \A i \in Indices(revenue_cm) :
                revenue_cm[i]["sms_revenue"] =
                    Val(IdxSum(InGroup(revenue.rows, revenue_cm[i]),
                               Num(revenue.rows, "sms_revenue_loc")))
          /\ \A i \in Indices(sms_cm) :
                sms_cm[i]["sms_sent"] =
                    Val(IdxSum(InGroup(sms.rows, sms_cm[i]), Num(sms.rows, "sms_count")))
          /\ \A i \in Indices(appt_cm) :
                LET I == InGroup(appointment.rows, appt_cm[i])
                    P == Present(appointment.rows, I, "staff_count")
                    t == IdxSum(P, Num(appointment.rows, "staff_count"))
                    a == appt_cm[i]["avg_staff_count"]
                IN /\ appt_cm[i]["total_active_appointments"] =
                         Val(IdxSum(I, Num(appointment.rows, "total_active_appointment_count")))
                   /\ P = {} => a = NaN
                   /\ P # {} => a # NaN /\ a[1] * Cardinality(P) = t * a[2]

\* a finished run with staff counts 4, 6 and an unparseable one in one group
C5_Witness ==
    /\ pc = "done"
    /\ \E i \in Indices(appt_cm) :
          /\ appt_cm[i]["avg_staff_count"] = <<5, 1>>
          /\ Cardinality(InGroup(appointment.rows, appt_cm[i])) = 3
          /\ \E j \in InGroup(appointment.rows, appt_cm[i]) :
                appointment.rows[j]["staff_count"] = NaN

\* C6: a finished run has written churn_comparison.csv exactly when
\* clients.csv has a churned_flag column; without the column it has warned,
\* written the other three tables and ended with status 0.
C6_ChurnWrittenIffColumn ==
    pc = "done" =>
        /\ "churn_comparison.csv" \in DOMAIN saved
              <=> "churned_flag" \in files["clients"].cols
        /\ "churned_flag" \notin files["clients"].cols =>
              /\ "WARNING: clients.csv missing churned_flag" \in log
              /\ {"client_month_fact.csv", "monthly_kpis.csv", "message_type_mix.csv"}
                    \subseteq DOMAIN saved
              /\ exit_status = 0

\* C7: a finished run whose fact table equals that of the finished run before
\* it has the same monthly KPIs, message-type mix and churn comparison.
C7_RollupsFromFact ==
    (pc = "done" /\ prev.ran /\ prev.fact = fact) =>
        /\ prev.monthly_kpis = monthly_kpis
        /\ prev.message_type_mix = message_type_mix
        /\ prev.churn_comparison = churn_comparison

\* C7, amended: the same for the monthly KPIs and the churn comparison only.
C7_KpisAndChurnFromFact ==
    (pc = "done" /\ prev.ran /\ prev.fact = fact) =>
        /\ prev.monthly_kpis = monthly_kpis
        /\ prev.churn_comparison = churn_comparison

\* two finished runs with the same, non-empty fact table and churn comparison
\* but different message types in sms.csv
C7_Witness ==
    /\ pc = "done"
    /\ prev.ran
    /\ prev.fact = fact
    /\ fact # <<>>
    /\ churn_comparison # <<>>
    /\ prev.message_type_mix # message_type_mix

MonthIdx(m) == {i \in Indices(fact) : fact[i]["year_month"] = m}

\* C8: every month of the fact table has exactly one KPI row and every KPI row
\* is of such a month; its revenue_per_sms is the month's total revenue over
\* the month's total SMS sent, null when that total is 0, and its
\* active_clients is the number of distinct clients in the month's fact rows.
C8_MonthlySumOverSum ==
    pc \in Past("kpis") =>
        /\ \A i \in Indices(fact) :
              Cardinality({j \in Indices(monthly_kpis) :
                  monthly_kpis[j]["year_month"] = fact[i]["year_month"]}) = 1
        /\ \A j \in Indices(monthly_kpis) :
              LET k == monthly_kpis[j]
                  I == MonthIdx(k["year_month"])
                  R == IdxSum(I, Num(fact, "sms_revenue"))
                  S == IdxSum(I, Num(fact, "sms_sent"))
              IN /\ I # {}
                 /\ S = 0 => k["revenue_per_sms"] = NaN
                 /\ S # 0 => /\ k["revenue_per_sms"] # NaN
                             /\ k["revenue_per_sms"][1] * S = R * k["revenue_per_sms"][2]
                 /\ k["active_clients"] = Val(Cardinality({fact[i]["client_id"] : i \in I}))

\* a finished run with a month of two clients whose total ratio, 100 / 3, is
\* not the mean of the rows' ratios
C8_Witness ==
    /\ pc = "done"
    /\ \E j \in Indices(monthly_kpis) :
          /\ monthly_kpis[j]["revenue_per_sms"] = <<100, 3>>
          /\ monthly_kpis[j]["active_clients"] = Val(2)
          /\ Cardinality(MonthIdx(monthly_kpis[j]["year_month"])) = 2

\* C9: the fact table, as built and as written, is in non-decreasing order of
\* (year_month, client_id).
C9_FactSorted ==
    /\ pc \in Past("fact") =>
          \A i \in 1..(Len(fact) - 1) :
              \/ Ym(fact[i]) < Ym(fact[i + 1])
              \/ Ym(fact[i]) = Ym(fact[i + 1]) /\ Id(fact[i]) <= Id(fact[i + 1])
    /\ pc \in Past("save") => saved["client_month_fact.csv"] = fact

\* a finished run whose fact table starts with a later client's earlier month,
\* from files that list the later month first
C9_Witness ==
    /\ pc = "done"
    /\ Len(fact) >= 2
    /\ Id(fact[1]) > Id(fact[2])
    /\ Ym(fact[1]) < Ym(fact[2])
    /\ Len(files["revenue"].rows) >= 2
    /\ files["revenue"].rows[1]["year_month"] = "2024-02"
    /\ files["revenue"].rows[2]["year_month"] = "2024-01"

\* C10: a standardised message_type is left unchanged by the standardisation,
\* and the two spellings of the SMS alert label become the same token.
C10_StandardiseIdempotent ==
    pc \in Past("message_type") =>
        \A i \in Indices(sms.rows) :
            /\ standardise_message_type(sms.rows[i]["message_type"])
                  = sms.rows[i]["message_type"]
            /\ files["sms"].rows[i]["message_type"] \in {SmsAlertRaw, SmsAlertCanon}
                  => sms.rows[i]["message_type"] = SmsAlertCanon

\* a finished run whose sms.csv spells the label both ways, and whose
\* message-type mix has the one token
C10_Witness ==
    /\ pc = "done"
    /\ Len(sms.rows) = 2
    /\ files["sms"].rows[1]["message_type"] = SmsAlertRaw
    /\ files["sms"].rows[2]["message_type"] = SmsAlertCanon
    /\ Len(message_type_mix) = 1
    /\ message_type_mix[1]["message_type"] = SmsAlertCanon


====
